---- MODULE Spec2Model ----
(***************************************************************************)
(* Model of docs/searchindex.js of ropy: the generated Sphinx search index *)
(* of the toolbox documentation.  The file is the single statement         *)
(*     Search.setIndex({docnames: ..., terms: ..., titleterms: ...})       *)
(* The object literal is transcribed field by field below.  The search     *)
(* script that owns Search and reads the index is not part of the file;    *)
(* its lookup is modelled from the specification (exact or prefix match    *)
(* over the term index, result a set of document identifiers).             *)
(***************************************************************************)
EXTENDS Integers, Sequences, FiniteSets, TLC

(***************************************************************************)
(* A value of `terms` / `titleterms` is either a JavaScript number or a    *)
(* JavaScript array of numbers.  The two shapes are kept apart by a tag.   *)
(***************************************************************************)
Num(n) == [type |-> "number", value |-> n]

Arr(s) == [type |-> "array", value |-> s]

(***************************************************************************)
(* The fields of the object literal passed to Search.setIndex.             *)
(***************************************************************************)
\* a generator slip: the last document is missing from the name table
docnamesShort == <<"index", "intro">>

\* a generator slip: one document name is written twice
docnamesDup == <<"index", "intro", "intro">>

docnames == <<"index", "intro", "roboticstoolbox">>

envversion ==
      "sphinx.domains.c" :> 2 @@ "sphinx.domains.changeset" :> 1 @@ "sphinx.domains.citation" :> 1
   @@ "sphinx.domains.cpp" :> 3 @@ "sphinx.domains.index" :> 1 @@ "sphinx.domains.javascript" :> 2
   @@ "sphinx.domains.math" :> 2 @@ "sphinx.domains.python" :> 2 @@ "sphinx.domains.rst" :> 2
   @@ "sphinx.domains.std" :> 1 @@ "sphinx.ext.todo" :> 2 @@ "sphinx.ext.viewcode" :> 1
   @@ "sphinx" :> 56

filenames == <<"index.rst", "intro.rst", "roboticstoolbox.rst">>

objects ==
      "ropy.robot" :> (
              "Link" :> <<2, 0, 0, "-">> @@ "Prismatic" :> <<2, 0, 0, "-">> @@ "Revolute" :> <<2, 0, 0, "-">>
           @@ "SerialLink" :> <<2, 0, 0, "-">>)
   @@ "ropy.robot.Link" :> (
              "Link" :> <<2, 1, 1, "">>)
   @@ "ropy.robot.Link.Link" :> (
              "A" :> <<2, 2, 1, "">> @@ "B" :> <<2, 2, 1, "">> @@ "G" :> <<2, 2, 1, "">>
           @@ "I" :> <<2, 2, 1, "">> @@ "Jm" :> <<2, 2, 1, "">> @@ "Tc" :> <<2, 2, 1, "">>
           @@ "a" :> <<2, 2, 1, "">> @@ "alpha" :> <<2, 2, 1, "">> @@ "d" :> <<2, 2, 1, "">>
           @@ "dyn" :> <<2, 2, 1, "">> @@ "flip" :> <<2, 2, 1, "">> @@ "friction" :> <<2, 2, 1, "">>
           @@ "islimit" :> <<2, 2, 1, "">> @@ "isprismatic" :> <<2, 2, 1, "">> @@ "isrevolute" :> <<2, 2, 1, "">>
           @@ "m" :> <<2, 2, 1, "">> @@ "mdh" :> <<2, 2, 1, "">> @@ "nofriction" :> <<2, 2, 1, "">>
           @@ "offset" :> <<2, 2, 1, "">> @@ "qlim" :> <<2, 2, 1, "">> @@ "r" :> <<2, 2, 1, "">>
           @@ "sigma" :> <<2, 2, 1, "">> @@ "theta" :> <<2, 2, 1, "">>)
   @@ "ropy.robot.Prismatic" :> (
              "Prismatic" :> <<2, 1, 1, "">>)
   @@ "ropy.robot.Prismatic.Prismatic" :> (
              "A" :> <<2, 2, 1, "">> @@ "B" :> <<2, 2, 1, "">> @@ "G" :> <<2, 2, 1, "">>
           @@ "I" :> <<2, 2, 1, "">> @@ "Jm" :> <<2, 2, 1, "">> @@ "Tc" :> <<2, 2, 1, "">>
           @@ "a" :> <<2, 2, 1, "">> @@ "alpha" :> <<2, 2, 1, "">> @@ "d" :> <<2, 2, 1, "">>
           @@ "dyn" :> <<2, 2, 1, "">> @@ "flip" :> <<2, 2, 1, "">> @@ "friction" :> <<2, 2, 1, "">>
           @@ "islimit" :> <<2, 2, 1, "">> @@ "isprismatic" :> <<2, 2, 1, "">> @@ "isrevolute" :> <<2, 2, 1, "">>
           @@ "m" :> <<2, 2, 1, "">> @@ "mdh" :> <<2, 2, 1, "">> @@ "nofriction" :> <<2, 2, 1, "">>
           @@ "offset" :> <<2, 2, 1, "">> @@ "qlim" :> <<2, 2, 1, "">> @@ "r" :> <<2, 2, 1, "">>
           @@ "sigma" :> <<2, 2, 1, "">> @@ "theta" :> <<2, 2, 1, "">>)
   @@ "ropy.robot.Revolute" :> (
              "Revolute" :> <<2, 1, 1, "">>)
   @@ "ropy.robot.Revolute.Revolute" :> (
              "A" :> <<2, 2, 1, "">> @@ "B" :> <<2, 2, 1, "">> @@ "G" :> <<2, 2, 1, "">>
           @@ "I" :> <<2, 2, 1, "">> @@ "Jm" :> <<2, 2, 1, "">> @@ "Tc" :> <<2, 2, 1, "">>
           @@ "a" :> <<2, 2, 1, "">> @@ "alpha" :> <<2, 2, 1, "">> @@ "d" :> <<2, 2, 1, "">>
           @@ "dyn" :> <<2, 2, 1, "">> @@ "flip" :> <<2, 2, 1, "">> @@ "friction" :> <<2, 2, 1, "">>
           @@ "islimit" :> <<2, 2, 1, "">> @@ "isprismatic" :> <<2, 2, 1, "">> @@ "isrevolute" :> <<2, 2, 1, "">>
           @@ "m" :> <<2, 2, 1, "">> @@ "mdh" :> <<2, 2, 1, "">> @@ "nofriction" :> <<2, 2, 1, "">>
           @@ "offset" :> <<2, 2, 1, "">> @@ "qlim" :> <<2, 2, 1, "">> @@ "r" :> <<2, 2, 1, "">>
           @@ "sigma" :> <<2, 2, 1, "">> @@ "theta" :> <<2, 2, 1, "">>)
   @@ "ropy.robot.SerialLink" :> (
              "SerialLink" :> <<2, 1, 1, "">>)
   @@ "ropy.robot.SerialLink.SerialLink" :> (
              "A" :> <<2, 2, 1, "">> @@ "a" :> <<2, 2, 1, "">> @@ "accel" :> <<2, 2, 1, "">>
           @@ "allfkine" :> <<2, 2, 1, "">> @@ "base" :> <<2, 2, 1, "">> @@ "cinertia" :> <<2, 2, 1, "">>
           @@ "coriolis" :> <<2, 2, 1, "">> @@ "d" :> <<2, 2, 1, "">> @@ "delete_rne" :> <<2, 2, 1, "">>
           @@ "fkine" :> <<2, 2, 1, "">> @@ "friction" :> <<2, 2, 1, "">> @@ "gravity" :> <<2, 2, 1, "">>
           @@ "gravjac" :> <<2, 2, 1, "">> @@ "gravload" :> <<2, 2, 1, "">> @@ "ikcon" :> <<2, 2, 1, "">>
           @@ "ikine3" :> <<2, 2, 1, "">> @@ "ikine6s" :> <<2, 2, 1, "">> @@ "ikine" :> <<2, 2, 1, "">>
           @@ "ikinem" :> <<2, 2, 1, "">> @@ "ikunc" :> <<2, 2, 1, "">> @@ "inertia" :> <<2, 2, 1, "">>
           @@ "islimit" :> <<2, 2, 1, "">> @@ "isprismatic" :> <<2, 2, 1, "">> @@ "isrevolute" :> <<2, 2, 1, "">>
           @@ "isspherical" :> <<2, 2, 1, "">> @@ "itorque" :> <<2, 2, 1, "">> @@ "jacob0" :> <<2, 2, 1, "">>
           @@ "jacob0v" :> <<2, 2, 1, "">> @@ "jacobe" :> <<2, 2, 1, "">> @@ "jacobev" :> <<2, 2, 1, "">>
           @@ "jointdynamics" :> <<2, 2, 1, "">> @@ "links" :> <<2, 2, 1, "">> @@ "manuf" :> <<2, 2, 1, "">>
           @@ "mdh" :> <<2, 2, 1, "">> @@ "n" :> <<2, 2, 1, "">> @@ "name" :> <<2, 2, 1, "">>
           @@ "nofriction" :> <<2, 2, 1, "">> @@ "offset" :> <<2, 2, 1, "">> @@ "pay" :> <<2, 2, 1, "">>
           @@ "payload" :> <<2, 2, 1, "">> @@ "q" :> <<2, 2, 1, "">> @@ "qlim" :> <<2, 2, 1, "">>
           @@ "r" :> <<2, 2, 1, "">> @@ "rne" :> <<2, 2, 1, "">> @@ "theta" :> <<2, 2, 1, "">>
           @@ "todegrees" :> <<2, 2, 1, "">> @@ "tool" :> <<2, 2, 1, "">> @@ "toradians" :> <<2, 2, 1, "">>
           @@ "twists" :> <<2, 2, 1, "">>)

\* a generator slip: the method kind is missing from the kind table
objnamesNoMethod ==
      0 :> <<"py", "module", "Python module">>
   @@ 1 :> <<"py", "class", "Python class">>

objnames ==
      0 :> <<"py", "module", "Python module">>
   @@ 1 :> <<"py", "class", "Python class">>
   @@ 2 :> <<"py", "method", "Python method">>

\* a generator slip: kind 2 is typed as a function, not a method
objtypesSkewed == 0 :> "py:module" @@ 1 :> "py:class" @@ 2 :> "py:function"

objtypes ==
      0 :> "py:module" @@ 1 :> "py:class" @@ 2 :> "py:method"

terms ==
      ("1x1" :> Num(2) @@ "1x2" :> Num(2) @@ "1x6" :> Num(2) @@ "1xm" :> Num(2))
   @@ ("1xn" :> Num(2) @@ "2x1" :> Num(2) @@ "3x3" :> Num(1) @@ "3xm" :> Num(2))
   @@ ("3xn" :> Num(1) @@ "4x4" :> Arr(<<1, 2>>) @@ "4x4xm" :> Num(2) @@ "6xn" :> Num(2))
   @@ ("6xnxm" :> Num(2) @@ "abstract" :> Num(1) @@ "boolean" :> Num(2) @@ "case" :> Arr(<<1, 2>>))
   @@ ("class" :> Num(0) @@ "default" :> Arr(<<1, 2>>) @@ "final" :> Num(2) @@ "float" :> Arr(<<1, 2>>))
   @@ ("function" :> Arr(<<0, 1>>) @@ "import" :> Num(1) @@ "int" :> Arr(<<1, 2>>) @@ "new" :> Num(1))
   @@ ("null" :> Num(2) @@ "return" :> Arr(<<1, 2>>) @@ "super" :> Num(1) @@ "true" :> Arr(<<1, 2>>))
   @@ ("For" :> Arr(<<1, 2>>) @@ "Not" :> Num(2) @@ "Such" :> Num(2) @@ "The" :> Arr(<<1, 2>>))
   @@ ("There" :> Num(1) @@ "These" :> Num(1) @@ "Useful" :> Arr(<<1, 2>>) @@ "Uses" :> Num(2))
   @@ ("Using" :> Num(1) @@ "__add__" :> Num(1) @@ "__iadd__" :> Num(1) @@ "__imul__" :> Num(1))
   @@ ("__ipow__" :> Num(1) @@ "__isub__" :> Num(1) @@ "__itruediv__" :> Num(1) @@ "__mul__" :> Num(1))
   @@ ("__pow__" :> Num(1) @@ "__radd__" :> Num(1) @@ "__rmul__" :> Num(1) @@ "__rsub__" :> Num(1))
   @@ ("__sub__" :> Num(1) @@ "__truediv__" :> Num(1) @@ "abil" :> Num(1) @@ "about" :> Arr(<<1, 2>>))
   @@ ("abov" :> Arr(<<1, 2>>) @@ "absolut" :> Num(2) @@ "accel" :> Num(2) @@ "acceler" :> Num(2))
   @@ ("accept" :> Num(1) @@ "achiev" :> Num(2) @@ "act" :> Arr(<<1, 2>>) @@ "actuat" :> Num(2))
   @@ ("add" :> Arr(<<1, 2>>) @@ "added" :> Arr(<<1, 2>>) @@ "addit" :> Num(1) @@ "adjust" :> Arr(<<1, 2>>))
   @@ ("adopt" :> Num(1) @@ "again" :> Num(1) @@ "all" :> Arr(<<1, 2>>) @@ "allfkin" :> Num(2))
   @@ ("allow" :> Arr(<<1, 2>>) @@ "along" :> Num(2) @@ "alpha" :> Num(2) @@ "also" :> Arr(<<1, 2>>))
   @@ ("alwai" :> Arr(<<1, 2>>) @@ "analyt" :> Num(2) @@ "angl" :> Num(2) @@ "ani" :> Arr(<<1, 2>>))
   @@ ("anoth" :> Num(1) @@ "append" :> Num(1) @@ "appli" :> Arr(<<1, 2>>) @@ "applic" :> Arr(<<1, 2>>))
   @@ ("approach" :> Arr(<<1, 2>>) @@ "appropri" :> Arr(<<1, 2>>) @@ "arang" :> Num(1) @@ "arbitrari" :> Num(2))
   @@ ("arbitrarili" :> Num(2) @@ "argument" :> Num(1) @@ "arithmet" :> Num(1) @@ "arm" :> Num(2))
   @@ ("armatur" :> Num(2) @@ "arrai" :> Arr(<<1, 2>>) @@ "array_lik" :> Num(1) @@ "arrow" :> Num(1))
   @@ ("asm" :> Num(2) @@ "aspect" :> Num(1) @@ "assign" :> Arr(<<1, 2>>) @@ "associ" :> Num(1))
   @@ ("assum" :> Num(2) @@ "attempt" :> Num(2) @@ "author" :> Num(2) @@ "autosc" :> Num(1))
   @@ ("avail" :> Num(1) @@ "axes" :> Arr(<<1, 2>>) @@ "axi" :> Arr(<<1, 2>>) @@ "back" :> Num(1))
   @@ ("backend" :> Num(1) @@ "balanc" :> Num(1) @@ "base" :> Arr(<<1, 2>>) @@ "becaus" :> Num(1))
   @@ ("becom" :> Num(2) @@ "been" :> Num(2) @@ "befor" :> Num(2) @@ "being" :> Arr(<<1, 2>>))
   @@ ("belong" :> Num(1) @@ "between" :> Num(2) @@ "binari" :> Num(1) @@ "bodi" :> Num(2))
   @@ ("bold" :> Num(1) @@ "bool" :> Num(2) @@ "both" :> Num(1) @@ "brute" :> Num(2))
   @@ ("bundl" :> Num(1) @@ "calcul" :> Num(2) @@ "call" :> Num(1) @@ "can" :> Arr(<<1, 2>>))
   @@ ("cartesian" :> Num(2) @@ "centr" :> Num(2) @@ "centripet" :> Num(2) @@ "chain" :> Num(2))
   @@ ("chap" :> Num(2) @@ "check" :> Num(2) @@ "choic" :> Num(2) @@ "chosen" :> Num(2))
   @@ ("cinertia" :> Num(2) @@ "clear" :> Num(1) @@ "code" :> Num(2) @@ "col" :> Num(2))
   @@ ("color" :> Num(1) @@ "column" :> Arr(<<1, 2>>) @@ "com" :> Num(2) @@ "combin" :> Num(1))
   @@ ("common" :> Arr(<<1, 2>>) @@ "compar" :> Num(2) @@ "complet" :> Num(2) @@ "composit" :> Num(1))
   @@ ("comprehens" :> Num(1) @@ "comput" :> Num(2) @@ "computation" :> Num(2) @@ "concret" :> Num(2))
   @@ ("condit" :> Num(2) @@ "configur" :> Num(2) @@ "congruent" :> Num(2) @@ "conjunct" :> Num(2))
   @@ ("consecut" :> Arr(<<1, 2>>) @@ "consid" :> Num(2) @@ "consider" :> Arr(<<1, 2>>) @@ "constant" :> Arr(<<1, 2>>))
   @@ ("constraint" :> Num(1) @@ "construct" :> Num(1) @@ "contai" :> Num(1) @@ "contain" :> Arr(<<1, 2>>))
   @@ ("continu" :> Num(2) @@ "contraint" :> Num(2) @@ "contribut" :> Num(2) @@ "control" :> Num(2))
   @@ ("conveni" :> Num(1) @@ "convert" :> Arr(<<1, 2>>) @@ "coordin" :> Arr(<<1, 2>>) @@ "copi" :> Arr(<<1, 2>>))
   @@ ("corioli" :> Num(2) @@ "cork" :> Num(2) @@ "correspond" :> Num(2) @@ "cos" :> Num(1))
   @@ ("could" :> Num(1) @@ "coulomb" :> Num(2) @@ "coupl" :> Num(2) @@ "creat" :> Num(1))
   @@ ("current" :> Num(2) @@ "deal" :> Num(1) @@ "defin" :> Num(2) @@ "deg" :> Arr(<<1, 2>>))
   @@ ("degre" :> Arr(<<1, 2>>) @@ "del" :> Num(1) @@ "delete_rn" :> Num(2) @@ "denavit" :> Num(2))
   @@ ("depend" :> Arr(<<1, 2>>) @@ "deriv" :> Arr(<<1, 2>>) @@ "describ" :> Arr(<<1, 2>>) @@ "desir" :> Num(2))
   @@ ("determin" :> Num(2) @@ "develop" :> Num(2) @@ "diagon" :> Num(2) @@ "dict" :> Num(1))
   @@ ("differ" :> Num(1) @@ "difficult" :> Num(2) @@ "dim" :> Num(1) @@ "dimens" :> Arr(<<1, 2>>))
   @@ ("dimension" :> Num(1) @@ "direct" :> Num(2) @@ "disabl" :> Num(2) @@ "displai" :> Num(1))
   @@ ("distanc" :> Num(2) @@ "disturb" :> Num(2) @@ "document" :> Num(1) @@ "doe" :> Arr(<<1, 2>>))
   @@ ("dof" :> Num(2) @@ "done" :> Num(1) @@ "down" :> Num(2) @@ "downsid" :> Num(1))
   @@ ("drawn" :> Num(1) @@ "due" :> Num(2) @@ "dunder" :> Num(1) @@ "dyn" :> Num(2))
   @@ ("dynam" :> Num(2) @@ "each" :> Arr(<<1, 2>>) @@ "effect" :> Num(2) @@ "effector" :> Num(2))
   @@ ("effici" :> Num(2) @@ "either" :> Arr(<<1, 2>>) @@ "elbow" :> Num(2) @@ "elbow_up" :> Num(2))
   @@ ("element" :> Arr(<<1, 2>>) @@ "elementwis" :> Num(1) @@ "elimin" :> Num(2) @@ "elment" :> Num(1))
   @@ ("els" :> Num(2) @@ "enabl" :> Num(1) @@ "encount" :> Num(2) @@ "end" :> Num(2))
   @@ ("enforc" :> Arr(<<1, 2>>) @@ "ensur" :> Num(1) @@ "entir" :> Arr(<<1, 2>>) @@ "enumer" :> Num(1))
   @@ ("environ" :> Num(1) @@ "equal" :> Num(2) @@ "equat" :> Num(2) @@ "equival" :> Arr(<<1, 2>>))
   @@ ("err" :> Num(2) @@ "error" :> Num(2) @@ "estim" :> Num(2) @@ "eul" :> Num(1))
   @@ ("evalu" :> Num(2) @@ "everi" :> Num(1) @@ "exampl" :> Arr(<<1, 2>>) @@ "exceed" :> Num(2))
   @@ ("except" :> Arr(<<1, 2>>) @@ "exist" :> Num(1) @@ "explicit" :> Num(2) @@ "explicitli" :> Num(2))
   @@ ("exponenti" :> Num(1) @@ "express" :> Arr(<<1, 2>>) @@ "extend" :> Num(1) @@ "extra" :> Num(1))
   @@ ("extract" :> Num(1) @@ "eye" :> Num(2) @@ "fail" :> Num(2) @@ "fals" :> Num(2))
   @@ ("familiar" :> Num(1) @@ "faster" :> Num(2) @@ "feasibl" :> Num(2) @@ "featherston" :> Num(2))
   @@ ("fewer" :> Num(2) @@ "fext" :> Num(2) @@ "figur" :> Num(1) @@ "first" :> Arr(<<1, 2>>))
   @@ ("fkine" :> Num(2) @@ "flip" :> Num(2) @@ "forc" :> Num(2) @@ "form" :> Arr(<<1, 2>>))
   @@ ("format" :> Num(2) @@ "formula" :> Num(2) @@ "forward" :> Num(2) @@ "found" :> Num(2))
   @@ ("four" :> Num(1) @@ "frame" :> Arr(<<1, 2>>) @@ "free" :> Num(2) @@ "freedom" :> Num(2))
   @@ ("frequent" :> Num(1) @@ "friction" :> Num(2) @@ "from" :> Arr(<<1, 2>>) @@ "gain" :> Num(2))
   @@ ("gear" :> Num(2) @@ "gearbox" :> Num(2) @@ "gener" :> Num(2) @@ "generalis" :> Num(2))
   @@ ("give" :> Num(1) @@ "given" :> Arr(<<1, 2>>) @@ "gnarli" :> Num(1) @@ "grav" :> Num(2))
   @@ ("gravit" :> Num(2) @@ "graviti" :> Num(2) @@ "gravjac" :> Num(2) @@ "gravload" :> Num(2))
   @@ ("green" :> Num(1) @@ "grid" :> Num(1) @@ "group" :> Num(1) @@ "guarante" :> Num(1))
   @@ ("guess" :> Num(2) @@ "hamilton" :> Num(1) @@ "happen" :> Num(2) @@ "hartenberg" :> Num(2))
   @@ ("has" :> Arr(<<1, 2>>) @@ "have" :> Arr(<<1, 2>>) @@ "haviland" :> Num(2) @@ "here" :> Num(1))
   @@ ("high" :> Num(0) @@ "highli" :> Num(2) @@ "hold" :> Arr(<<1, 2>>) @@ "homogen" :> Arr(<<1, 2>>))
   @@ ("homogenen" :> Num(2) @@ "howev" :> Num(1) @@ "hutchinson" :> Num(2) @@ "ident" :> Num(1))
   @@ ("identifi" :> Num(2) @@ "ignor" :> Num(2) @@ "ikcon" :> Num(2) @@ "ikin" :> Num(2))
   @@ ("ikine3" :> Num(2) @@ "ikine6" :> Num(2) @@ "ikine_sym" :> Num(2) @@ "ikinem" :> Num(2))
   @@ ("ikunc" :> Num(2) @@ "ilimit" :> Num(2) @@ "implement" :> Num(2) @@ "impos" :> Num(2))
   @@ ("includ" :> Arr(<<1, 2>>) @@ "incorpor" :> Num(2) @@ "index" :> Num(1) @@ "indic" :> Num(2))
   @@ ("industri" :> Num(2) @@ "inerti" :> Num(2) @@ "inertia" :> Num(2) @@ "inform" :> Arr(<<1, 2>>))
   @@ ("inherit" :> Num(1) @@ "initi" :> Num(2) @@ "initialis" :> Num(2) @@ "input" :> Arr(<<1, 2>>))
   @@ ("insert" :> Num(1) @@ "instal" :> Num(1) @@ "instanc" :> Num(1) @@ "instead" :> Num(2))
   @@ ("integr" :> Num(2) @@ "intend" :> Num(2) @@ "intern" :> Num(2) @@ "interpret" :> Num(2))
   @@ ("intersect" :> Num(2) @@ "introduct" :> Num(0) @@ "inv" :> Arr(<<1, 2>>) @@ "invers" :> Arr(<<1, 2>>))
   @@ ("invoc" :> Num(2) @@ "invok" :> Num(1) @@ "involv" :> Num(2) @@ "islimit" :> Num(2))
   @@ ("isprismat" :> Num(2) @@ "isrevolut" :> Num(2) @@ "isspher" :> Num(2) @@ "item" :> Num(1))
   @@ ("iter" :> Arr(<<1, 2>>) @@ "itorqu" :> Num(2) @@ "jacob0" :> Num(2) @@ "jacob0v" :> Num(2))
   @@ ("jacob" :> Num(2) @@ "jacobev" :> Num(2) @@ "jacobian" :> Num(2) @@ "jess" :> Num(2))
   @@ ("joint" :> Num(2) @@ "jointdynam" :> Num(2) @@ "jointlimit" :> Num(2) @@ "journa" :> Num(2))
   @@ ("journal" :> Num(2) @@ "just" :> Num(1) @@ "keep" :> Num(1) @@ "keyword" :> Num(1))
   @@ ("kind" :> Num(2) @@ "kinemat" :> Num(2) @@ "known" :> Num(2) @@ "kr5" :> Num(2))
   @@ ("kuka" :> Num(2) @@ "lambda" :> Num(2) @@ "larg" :> Num(2) @@ "last" :> Arr(<<1, 2>>))
   @@ ("latter" :> Num(1) @@ "left" :> Arr(<<1, 2>>) @@ "lefti" :> Num(2) @@ "len" :> Num(1))
   @@ ("length" :> Arr(<<1, 2>>) @@ "less" :> Num(2) @@ "let" :> Num(1) @@ "level" :> Num(0))
   @@ ("levenberg" :> Num(2) @@ "like" :> Arr(<<1, 2>>) @@ "limit" :> Num(2) @@ "line" :> Arr(<<1, 2>>))
   @@ ("linear" :> Num(2) @@ "link" :> Num(0) @@ "list" :> Num(2) @@ "lmfsolv" :> Num(2))
   @@ ("load" :> Num(2) @@ "locaat" :> Num(2) @@ "local" :> Num(2) @@ "locat" :> Num(2))
   @@ ("low" :> Num(0) @@ "mai" :> Num(1) @@ "mani" :> Num(2) @@ "manipul" :> Arr(<<1, 2>>))
   @@ ("manuf" :> Num(2) @@ "manufactur" :> Num(2) @@ "map" :> Arr(<<1, 2>>) @@ "marquadt" :> Num(2))
   @@ ("mask" :> Num(2) @@ "mass" :> Num(2) @@ "math" :> Num(0) @@ "mathbb" :> Num(1))
   @@ ("mathemat" :> Num(1) @@ "matplotlib" :> Num(1) @@ "matric" :> Arr(<<1, 2>>) @@ "matrix" :> Arr(<<1, 2>>))
   @@ ("max" :> Num(2) @@ "maximum" :> Num(2) @@ "mdh" :> Num(2) @@ "mean" :> Arr(<<1, 2>>))
   @@ ("measur" :> Num(2) @@ "mechan" :> Num(2) @@ "memori" :> Num(2) @@ "merit" :> Num(1))
   @@ ("method" :> Arr(<<1, 2>>) @@ "might" :> Num(2) @@ "min" :> Num(2) @@ "minim" :> Arr(<<1, 2>>))
   @@ ("minimis" :> Num(2) @@ "minimum" :> Num(2) @@ "mix" :> Num(1) @@ "mixtur" :> Num(1))
   @@ ("model" :> Num(2) @@ "modifi" :> Num(2) @@ "modul" :> Num(1) @@ "more" :> Num(2))
   @@ ("most" :> Arr(<<1, 2>>) @@ "motor" :> Num(2) @@ "move" :> Arr(<<1, 2>>) @@ "much" :> Arr(<<1, 2>>))
   @@ ("multi" :> Arr(<<1, 2>>) @@ "multipl" :> Arr(<<1, 2>>) @@ "multipli" :> Num(1) @@ "must" :> Num(2))
   @@ ("name" :> Arr(<<1, 2>>) @@ "namespa" :> Num(1) @@ "ndarrai" :> Arr(<<1, 2>>) @@ "ndash" :> Num(1))
   @@ ("need" :> Num(1) @@ "neg" :> Num(2) @@ "nfrobot" :> Num(2) @@ "nofrict" :> Num(2))
   @@ ("nolm" :> Num(2) @@ "non" :> Num(2) @@ "nonam" :> Num(2) @@ "none" :> Num(2))
   @@ ("nonlinear" :> Num(2) @@ "norm" :> Arr(<<1, 2>>) @@ "notat" :> Num(1) @@ "note" :> Arr(<<1, 2>>))
   @@ ("now" :> Num(1) @@ "number" :> Arr(<<1, 2>>) @@ "numer" :> Arr(<<1, 2>>) @@ "numpi" :> Arr(<<1, 2>>))
   @@ ("nxk" :> Num(2) @@ "nxm" :> Arr(<<1, 2>>) @@ "nxn" :> Num(2) @@ "nxnxk" :> Num(2))
   @@ ("obei" :> Num(1) @@ "object" :> Num(2) @@ "obtain" :> Num(2) @@ "off" :> Num(2))
   @@ ("offset" :> Num(2) @@ "often" :> Arr(<<1, 2>>) @@ "omega" :> Num(2) @@ "one" :> Arr(<<1, 2>>))
   @@ ("onli" :> Arr(<<1, 2>>) @@ "onlin" :> Num(1) @@ "oper" :> Num(2) @@ "operand" :> Num(1))
   @@ ("opposit" :> Num(2) @@ "optim" :> Num(2) @@ "optimis" :> Num(2) @@ "option" :> Arr(<<1, 2>>))
   @@ ("order" :> Num(1) @@ "orient" :> Arr(<<1, 2>>) @@ "orin" :> Num(2) @@ "orthogon" :> Num(1))
   @@ ("other" :> Arr(<<1, 2>>) @@ "otherwis" :> Arr(<<1, 2>>) @@ "output" :> Arr(<<1, 2>>) @@ "over" :> Arr(<<1, 2>>))
   @@ ("overwrit" :> Num(2) @@ "packag" :> Num(1) @@ "pai" :> Num(2) @@ "paramet" :> Num(2))
   @@ ("parent" :> Num(1) @@ "particular" :> Num(1) @@ "particularli" :> Num(1) @@ "pass" :> Arr(<<1, 2>>))
   @@ ("paul" :> Num(2) @@ "payload" :> Num(2) @@ "peform" :> Num(2) @@ "per" :> Num(2))
   @@ ("perform" :> Num(1) @@ "plane" :> Num(2) @@ "plot" :> Num(1) @@ "plt" :> Num(1))
   @@ ("point" :> Arr(<<1, 2>>) @@ "polymorph" :> Num(1) @@ "poor" :> Num(2) @@ "pop" :> Num(1))
   @@ ("pose" :> Num(2) @@ "posese3" :> Num(1) @@ "posit" :> Arr(<<1, 2>>) @@ "possibl" :> Num(1))
   @@ ("power" :> Num(1) @@ "present" :> Num(2) @@ "previou" :> Num(2) @@ "print" :> Num(1))
   @@ ("prismat" :> Num(0) @@ "product" :> Arr(<<1, 2>>) @@ "properti" :> Arr(<<1, 2>>) @@ "proport" :> Num(2))
   @@ ("prototyp" :> Num(2) @@ "provdid" :> Num(1) @@ "provid" :> Num(1) @@ "puma560" :> Num(2))
   @@ ("puma" :> Num(2) @@ "pweight" :> Num(2) @@ "python" :> Num(1) @@ "qdd" :> Num(2))
   @@ ("qdeg" :> Num(2) @@ "qlim" :> Num(2) @@ "qlimit" :> Num(2) @@ "qnorm" :> Num(1))
   @@ ("qprint" :> Num(1) @@ "qqmul" :> Num(1) @@ "qrad" :> Num(2) @@ "quat" :> Num(1))
   @@ ("quick" :> Num(1) @@ "radian" :> Num(2) @@ "rais" :> Num(1) @@ "rather" :> Num(2))
   @@ ("ratio" :> Num(2) @@ "reach" :> Num(2) @@ "read" :> Num(1) @@ "recent" :> Num(1))
   @@ ("red" :> Num(1) @@ "refer" :> Num(2) @@ "reflect" :> Num(2) @@ "regular" :> Num(1))
   @@ ("reject" :> Num(2) @@ "rel" :> Num(1) @@ "relat" :> Arr(<<1, 2>>) @@ "relev" :> Num(1))
   @@ ("remov" :> Arr(<<1, 2>>) @@ "repeat" :> Num(1) @@ "replac" :> Num(1) @@ "replic" :> Num(1))
   @@ ("repres" :> Arr(<<1, 2>>) @@ "represent" :> Arr(<<1, 2>>) @@ "requir" :> Arr(<<1, 2>>) @@ "research" :> Num(2))
   @@ ("respect" :> Num(2) @@ "result" :> Arr(<<1, 2>>) @@ "retrun" :> Num(2) @@ "revolut" :> Num(0))
   @@ ("right" :> Arr(<<1, 2>>) @@ "righti" :> Num(2) @@ "rigid" :> Num(2) @@ "ring" :> Num(1))
   @@ ("rlimit" :> Num(2) @@ "rne" :> Num(2) @@ "robot" :> Arr(<<1, 2>>) @@ "ropi" :> Num(2))
   @@ ("rotat" :> Arr(<<1, 2>>) @@ "roti" :> Num(1) @@ "rotx" :> Num(1) @@ "row" :> Arr(<<1, 2>>))
   @@ ("rpy2r" :> Num(1) @@ "rtbpose" :> Num(1) @@ "rtype" :> Num(2) @@ "rule" :> Num(1))
   @@ ("rviz" :> Num(1) @@ "safeti" :> Num(1) @@ "same" :> Arr(<<1, 2>>) @@ "scalar" :> Arr(<<1, 2>>))
   @@ ("scalarto" :> Num(1) @@ "scale" :> Num(2) @@ "se2" :> Num(1) @@ "se3" :> Arr(<<1, 2>>))
   @@ ("search" :> Num(2) @@ "section" :> Arr(<<1, 2>>) @@ "see" :> Num(1) @@ "seen" :> Num(2))
   @@ ("semant" :> Num(1) @@ "separ" :> Arr(<<1, 2>>) @@ "sequenc" :> Arr(<<1, 2>>) @@ "seri" :> Num(2))
   @@ ("serial" :> Num(2) @@ "seriallink" :> Num(0) @@ "set" :> Arr(<<1, 2>>) @@ "sever" :> Num(1))
   @@ ("shape" :> Num(1) @@ "should" :> Num(2) @@ "shoulder" :> Num(2) @@ "show" :> Arr(<<1, 2>>))
   @@ ("shown" :> Arr(<<1, 2>>) @@ "sigma" :> Num(2) @@ "sign" :> Num(2) @@ "similar" :> Num(1))
   @@ ("similarli" :> Num(1) @@ "simpl" :> Num(1) @@ "simul" :> Num(2) @@ "sin" :> Num(1))
   @@ ("sinc" :> Num(2) @@ "singl" :> Num(1) @@ "singular" :> Num(2) @@ "six" :> Num(2))
   @@ ("size" :> Num(2) @@ "slam" :> Num(1) @@ "slice" :> Num(1) @@ "slimit" :> Num(2))
   @@ ("slow" :> Num(2) @@ "smooth" :> Num(2) @@ "so2" :> Num(1) @@ "so3" :> Num(1))
   @@ ("solut" :> Num(2) @@ "solv" :> Num(2) @@ "solver" :> Num(2) @@ "some" :> Arr(<<1, 2>>))
   @@ ("somewhat" :> Num(1) @@ "sourc" :> Num(2) @@ "space" :> Arr(<<1, 2>>) @@ "span" :> Num(2))
   @@ ("spatial" :> Arr(<<0, 2>>) @@ "spatialmath" :> Num(1) @@ "specif" :> Num(2) @@ "specifi" :> Num(2))
   @@ ("spheric" :> Num(2) @@ "spong" :> Num(2) @@ "springer" :> Num(2) @@ "standard" :> Arr(<<1, 2>>))
   @@ ("stanford" :> Num(2) @@ "state" :> Num(2) @@ "step" :> Num(2) @@ "stiff" :> Num(2))
   @@ ("stop" :> Num(1) @@ "store" :> Num(2) @@ "string" :> Arr(<<1, 2>>) @@ "style" :> Num(1))
   @@ ("subclass" :> Arr(<<1, 2>>) @@ "subtract" :> Num(1) @@ "success" :> Num(2) @@ "sum" :> Num(1))
   @@ ("summer" :> Num(2) @@ "sumsqr" :> Num(2) @@ "superclass" :> Num(2) @@ "suppli" :> Num(2))
   @@ ("support" :> Num(2) @@ "sym" :> Num(1) @@ "symbol" :> Num(2) @@ "symmetr" :> Num(2))
   @@ ("sympi" :> Num(1) @@ "system" :> Num(2) @@ "tai" :> Num(2) @@ "taken" :> Arr(<<1, 2>>))
   @@ ("tall" :> Num(2) @@ "tau" :> Num(2) @@ "taub" :> Num(2) @@ "taug" :> Num(2))
   @@ ("taui" :> Num(2) @@ "tb_optpars" :> Num(1) @@ "tension" :> Num(1) @@ "term" :> Num(2))
   @@ ("test" :> Num(2) @@ "than" :> Num(2) @@ "thei" :> Num(1) @@ "them" :> Num(1))
   @@ ("theta" :> Arr(<<1, 2>>) @@ "thi" :> Arr(<<1, 2>>) @@ "thing" :> Num(1) @@ "third" :> Arr(<<1, 2>>))
   @@ ("those" :> Num(2) @@ "though" :> Num(2) @@ "three" :> Num(2) @@ "through" :> Num(2))
   @@ ("time" :> Arr(<<1, 2>>) @@ "tjhe" :> Num(1) @@ "todegre" :> Num(2) @@ "tol" :> Num(2))
   @@ ("toler" :> Num(2) @@ "tool" :> Num(2) @@ "toolbox" :> Num(1) @@ "toradian" :> Num(2))
   @@ ("torqu" :> Num(2) @@ "traceback" :> Num(1) @@ "trajecotri" :> Num(2) @@ "trajectori" :> Arr(<<1, 2>>))
   @@ ("transfer" :> Num(2) @@ "transform" :> Arr(<<1, 2>>) @@ "transl2" :> Num(1) @@ "transl" :> Num(1))
   @@ ("translat" :> Num(2) @@ "transmiss" :> Num(2) @@ "transpos" :> Num(2) @@ "trap" :> Num(2))
   @@ ("treat" :> Num(2) @@ "tricki" :> Num(2) @@ "trot2" :> Num(1) @@ "trotx" :> Num(1))
   @@ ("trplot2" :> Num(1) @@ "trplot" :> Num(1) @@ "tupl" :> Arr(<<1, 2>>) @@ "ture" :> Num(2))
   @@ ("twist" :> Num(2) @@ "two" :> Num(1) @@ "twolink" :> Num(2) @@ "type" :> Arr(<<1, 2>>))
   @@ ("typeerror" :> Num(1) @@ "typic" :> Num(1) @@ "unchang" :> Num(2) @@ "under" :> Num(2))
   @@ ("underactu" :> Num(2) @@ "underpin" :> Num(1) @@ "unimport" :> Num(2) @@ "uniqu" :> Num(2))
   @@ ("unitquaternion" :> Num(1) @@ "upsid" :> Num(1) @@ "use" :> Arr(<<1, 2>>) @@ "used" :> Arr(<<1, 2>>))
   @@ ("useful" :> Num(2) @@ "userlist" :> Num(1) @@ "uses" :> Num(2) @@ "using" :> Arr(<<1, 2>>))
   @@ ("valid" :> Num(1) @@ "valu" :> Arr(<<1, 2>>) @@ "valueerror" :> Num(1) @@ "variabl" :> Arr(<<1, 2>>))
   @@ ("varieti" :> Num(1) @@ "variou" :> Num(2) @@ "vector" :> Num(2) @@ "veloc" :> Num(2))
   @@ ("veri" :> Num(2) @@ "vialat" :> Num(2) @@ "vidyasagar" :> Num(2) @@ "viscou" :> Num(2))
   @@ ("vision" :> Arr(<<1, 2>>) @@ "vol" :> Num(2) @@ "wai" :> Num(1) @@ "walker" :> Num(2))
   @@ ("weight" :> Num(2) @@ "well" :> Num(1) @@ "went" :> Num(2) @@ "what" :> Arr(<<1, 2>>))
   @@ ("when" :> Arr(<<1, 2>>) @@ "where" :> Arr(<<1, 2>>) @@ "which" :> Arr(<<1, 2>>) @@ "width" :> Num(1))
   @@ ("wilei" :> Num(2) @@ "wise" :> Num(1) @@ "wish" :> Num(1) @@ "within" :> Num(2))
   @@ ("without" :> Num(2) @@ "work" :> Arr(<<1, 2>>) @@ "workspac" :> Num(1) @@ "world" :> Arr(<<1, 2>>))
   @@ ("would" :> Num(1) @@ "wrench" :> Num(2) @@ "wrist" :> Num(2) @@ "wrist_flip" :> Num(2))
   @@ ("write" :> Num(1) @@ "wrong" :> Num(2) @@ "yet" :> Arr(<<1, 2>>) @@ "ymin" :> Num(2))
   @@ ("you" :> Num(1) @@ "zero" :> Arr(<<1, 2>>) @@ "zhang" :> Num(2) @@ "zip" :> Num(1))

titles == <<"Robotics Toolbox for Python", "Introduction", "Classes and functions">>

\* a generator slip: a single document is written as a one-element array
titletermsOneElement ==
      "class" :> Arr(<<1, 2>>) @@ "function" :> Arr(<<2>>) @@ "capabl" :> Num(1) @@ "compat" :> Num(1)
   @@ "graphic" :> Num(1) @@ "high" :> Num(1) @@ "introduct" :> Num(1) @@ "level" :> Num(1)
   @@ "link" :> Num(2) @@ "list" :> Num(1) @@ "low" :> Num(1) @@ "math" :> Num(1)
   @@ "matlab" :> Num(1) @@ "object" :> Num(1) @@ "oper" :> Num(1) @@ "pose" :> Num(1)
   @@ "prismat" :> Num(2) @@ "python" :> Num(0) @@ "quaternion" :> Num(1) @@ "revolut" :> Num(2)
   @@ "robot" :> Num(0) @@ "seriallink" :> Num(2) @@ "spatial" :> Num(1) @@ "support" :> Num(1)
   @@ "symbol" :> Num(1) @@ "toolbox" :> Num(0) @@ "unit" :> Num(1) @@ "vector" :> Num(1)

titleterms ==
      "class" :> Arr(<<1, 2>>) @@ "function" :> Num(2) @@ "capabl" :> Num(1) @@ "compat" :> Num(1)
   @@ "graphic" :> Num(1) @@ "high" :> Num(1) @@ "introduct" :> Num(1) @@ "level" :> Num(1)
   @@ "link" :> Num(2) @@ "list" :> Num(1) @@ "low" :> Num(1) @@ "math" :> Num(1)
   @@ "matlab" :> Num(1) @@ "object" :> Num(1) @@ "oper" :> Num(1) @@ "pose" :> Num(1)
   @@ "prismat" :> Num(2) @@ "python" :> Num(0) @@ "quaternion" :> Num(1) @@ "revolut" :> Num(2)
   @@ "robot" :> Num(0) @@ "seriallink" :> Num(2) @@ "spatial" :> Num(1) @@ "support" :> Num(1)
   @@ "symbol" :> Num(1) @@ "toolbox" :> Num(0) @@ "unit" :> Num(1) @@ "vector" :> Num(1)

(***************************************************************************)
(* The object literal as a whole.                                          *)
(***************************************************************************)
IndexLiteral ==
  [docnames |-> docnames, envversion |-> envversion, filenames |-> filenames,
   objects |-> objects, objnames |-> objnames, objtypes |-> objtypes,
   terms |-> terms, titles |-> titles, titleterms |-> titleterms]

(***************************************************************************)
(* Before the statement runs the search script holds no index.             *)
(***************************************************************************)
NoIndex ==
  [docnames |-> <<>>, envversion |-> <<>>, filenames |-> <<>>,
   objects |-> <<>>, objnames |-> <<>>, objtypes |-> <<>>,
   terms |-> <<>>, titles |-> <<>>, titleterms |-> <<>>]

(***************************************************************************)
(* Bounds and inputs of the model.                                         *)
(***************************************************************************)
NumReaders == 2

Readers == 1..NumReaders

\* Search terms tried by the readers: the empty term, absent terms, keys
\* holding a number, keys holding an array, proper prefixes of keys, and
\* keys that are also prefixes of other keys.
Queries ==
  {"", "zzz", "matlab", "link", "robot", "function", "tool", "ik",
   "The", "the", "4x4"}

VARIABLES
  index,    \* the index held by the search script
  loaded,   \* TRUE once Search.setIndex has run
  pc,       \* pc[r] : "idle" before reader r's first lookup, then "done"
  query,    \* query[r] : the term of reader r's latest lookup
  result    \* result[r] : the set of document identifiers it returned

vars == <<index, loaded, pc, query, result>>

(***************************************************************************)
(* Lookup, as the specification describes it.                              *)
(***************************************************************************)
\* a match that accepts equal words only
startsWithExact(w, t) == w = t

\* term t equals indexed word w or is a prefix of it
startsWith(w, t) ==
  /\ Len(t) <= Len(w)
  /\ (Len(t) = 0 \/ SubSeq(w, 1, Len(t)) = t)

\* both shapes of a value become a set of document identifiers
normalise(v) ==
  IF v.type = "number"
    THEN {v.value}
    ELSE {v.value[i] : i \in DOMAIN v.value}

\* every indexed word the term matches contributes its documents
lookup(idx, t) ==
  UNION {normalise(idx.terms[w]) : w \in {k \in DOMAIN idx.terms : startsWith(k, t)}}

(***************************************************************************)
(* The state machine.                                                      *)
(***************************************************************************)
Init ==
  /\ index = NoIndex
  /\ loaded = FALSE
  /\ pc = [r \in Readers |-> "idle"]
  /\ query = [r \in Readers |-> ""]
  /\ result = [r \in Readers |-> {}]

\* Search.setIndex with a term whose document list is empty
setIndexEmptyList ==
  /\ ~loaded
  /\ index' = [IndexLiteral EXCEPT !.terms["link"] = Arr(<<>>)]
  /\ loaded' = TRUE
  /\ UNCHANGED <<pc, query, result>>

\* Search.setIndex with a class filed under another document than its module
setIndexStrayClass ==
  /\ ~loaded
  /\ index' = [IndexLiteral EXCEPT !.objects["ropy.robot.Link"]["Link"] = <<1, 1, 1, "">>]
  /\ loaded' = TRUE
  /\ UNCHANGED <<pc, query, result>>

\* Search.setIndex({...}): the one statement of the file
setIndex ==
  /\ ~loaded
  /\ index' = IndexLiteral
  /\ loaded' = TRUE
  /\ UNCHANGED <<pc, query, result>>

\* a lookup that writes the normalised array back into the index
searchInPlace(r, t) ==
  /\ loaded
  /\ pc' = [pc EXCEPT ![r] = "done"]
  /\ query' = [query EXCEPT ![r] = t]
  /\ result' = [result EXCEPT ![r] = lookup(index, t)]
  /\ index' = [index EXCEPT !.terms =
                 [w \in DOMAIN @ |->
                    IF w = t /\ @[w].type = "number"
                      THEN Arr(<<@[w].value>>) ELSE @[w]]]
  /\ UNCHANGED loaded

\* reader r looks up term t; the index is only read
search(r, t) ==
  /\ loaded
  /\ pc' = [pc EXCEPT ![r] = "done"]
  /\ query' = [query EXCEPT ![r] = t]
  /\ result' = [result EXCEPT ![r] = lookup(index, t)]
  /\ UNCHANGED <<index, loaded>>

Next ==
  \/ setIndex
  \/ \E r \in Readers, t \in Queries : search(r, t)

Spec == Init /\ [][Next]_vars

(***************************************************************************)
(* Properties of the loaded index and of lookups over it.                  *)
(***************************************************************************)
\* the document identifiers a term value holds
DocIds(v) ==
  IF v.type = "number"
    THEN {v.value}
    ELSE {v.value[i] : i \in 1..Len(v.value)}

\* the positions of the document-name table, counted from 0 as in the file
ValidDocs == 0..(Len(index.docnames) - 1)

\* the (prefix, name) pairs of the object index
Entries ==
  UNION {{<<p, n>> : n \in DOMAIN index.objects[p]} : p \in DOMAIN index.objects}

\* the entry stored as objects[prefix][name]
Entry(e) == index.objects[e[1]][e[2]]

\* the kind name ("module", "class", "method") of an entry
KindName(e) == index.objnames[Entry(e)[2]][2]

\* C1: every document identifier held by a value of `terms` or of
\* `titleterms`, as a single number or as an element of an array, is a
\* position of the document-name table: 0 <= i < length(docnames).
C1_DocIdsValid ==
  /\ \A w \in DOMAIN index.terms : DocIds(index.terms[w]) \subseteq ValidDocs
  /\ \A w \in DOMAIN index.titleterms :
       DocIds(index.titleterms[w]) \subseteq ValidDocs

C1_Witness ==
  /\ loaded
  /\ \E w \in DOMAIN index.terms : index.terms[w].type = "array"
  /\ \E w \in DOMAIN index.terms : index.terms[w].type = "number"
  /\ \E w \in DOMAIN index.titleterms : index.titleterms[w].type = "array"
  /\ \E w \in DOMAIN index.titleterms : index.titleterms[w].type = "number"

\* C2: no key of `terms` maps to an empty list; a lookup of a term that is
\* a key of `terms` returns a non-empty set, and a lookup of a term that
\* matches no indexed term returns the empty set.
C2_LookupPresentAbsent ==
  /\ \A w \in DOMAIN index.terms :
       index.terms[w].type = "array" => Len(index.terms[w].value) > 0
  /\ \A r \in Readers :
       pc[r] = "done" =>
         /\ query[r] \in DOMAIN index.terms => result[r] # {}
         /\ (\A w \in DOMAIN index.terms : ~startsWith(w, query[r]))
              => result[r] = {}

C2_Witness ==
  \E r1, r2 \in Readers :
    /\ pc[r1] = "done" /\ pc[r2] = "done"
    /\ query[r1] \in DOMAIN index.terms /\ result[r1] # {}
    /\ \A w \in DOMAIN index.terms : ~startsWith(w, query[r2])
    /\ result[r2] = {}

\* C3: once loaded the index never changes: every step leaves all its
\* fields equal to the object literal that was loaded, and a lookup of a
\* term returns what any earlier lookup of that term returned.
C3_IndexImmutable ==
  [][loaded =>
       /\ loaded'
       /\ index' = index
       /\ index'.docnames = docnames /\ index'.filenames = filenames
       /\ index'.titles = titles /\ index'.terms = terms
       /\ index'.titleterms = titleterms /\ index'.objects = objects
       /\ index'.objnames = objnames /\ index'.objtypes = objtypes
       /\ \A r1, r2 \in Readers :
            (pc[r2] = "done" /\ pc'[r1] = "done" /\ query'[r1] = query[r2])
              => result'[r1] = result[r2]]_vars

C3_Witness ==
  /\ loaded
  /\ index = IndexLiteral
  /\ \E r1, r2 \in Readers :
       /\ r1 # r2
       /\ pc[r1] = "done" /\ pc[r2] = "done"
       /\ query[r1] = query[r2] /\ result[r1] = result[r2]
       /\ result[r1] # {}

\* C4: the document-name table has no duplicate name, and docnames,
\* filenames and titles have the same length, so every identifier resolves
\* to one document name, one file name and one title.
C4_DocIdsUnique ==
  /\ Len(index.filenames) = Len(index.docnames)
  /\ Len(index.titles) = Len(index.docnames)
  /\ \A i, j \in 1..Len(index.docnames) :
       index.docnames[i] = index.docnames[j] => i = j

C4_Witness ==
  /\ loaded
  /\ Len(index.docnames) >= 2
  /\ \A i \in ValidDocs :
       /\ i + 1 \in DOMAIN index.filenames
       /\ i + 1 \in DOMAIN index.titles

C7_ObjectsValid ==
  \A e \in Entries :
    /\ Entry(e)[1] \in ValidDocs
    /\ Entry(e)[2] \in DOMAIN index.objnames
    /\ Entry(e)[2] \in DOMAIN index.objtypes
    /\ KindName(e) \in {"module", "class", "method"}

C7_Witness ==
  /\ loaded
  /\ \A k \in {"module", "class", "method"} :
       \E e \in Entries : KindName(e) = k

\* C8: every value of `terms` and `titleterms` is either a single number or
\* an array of at least two numbers in strictly increasing order; an empty
\* or one-element array never occurs.
Canonical(v) ==
  \/ v.type = "number"
  \/ /\ v.type = "array"
     /\ Len(v.value) >= 2
     /\ \A i \in 1..(Len(v.value) - 1) : v.value[i] < v.value[i + 1]

C8_ValuesCanonical ==
  /\ \A w \in DOMAIN index.terms : Canonical(index.terms[w])
  /\ \A w \in DOMAIN index.titleterms : Canonical(index.titleterms[w])

C8_Witness ==
  \E r1, r2 \in Readers :
    /\ pc[r1] = "done" /\ pc[r2] = "done"
    /\ query[r1] \in DOMAIN index.terms
    /\ index.terms[query[r1]].type = "array"
    /\ Cardinality(result[r1]) >= 2
    /\ query[r2] \in DOMAIN index.terms
    /\ index.terms[query[r2]].type = "number"
    /\ Cardinality(result[r2]) = 1

\* C9: the object index is hierarchically closed: the prefix of a method
\* entry is the qualified name (prefix.name) of a class entry, the prefix of
\* a class entry is the qualified name of a module entry, and the child has
\* the owning document of its parent.
HasParent(e, kind) ==
  \E p \in Entries :
    /\ p[1] \o "." \o p[2] = e[1]
    /\ KindName(p) = kind
    /\ Entry(p)[1] = Entry(e)[1]

C9_ObjectsClosed ==
  \A e \in Entries :
    /\ KindName(e) = "method" => HasParent(e, "class")
    /\ KindName(e) = "class" => HasParent(e, "module")

C9_Witness ==
  /\ loaded
  /\ \E e \in Entries : KindName(e) = "method" /\ HasParent(e, "class")
  /\ \E e \in Entries : KindName(e) = "class" /\ HasParent(e, "module")

\* C10: `objnames` and `objtypes` have the same keys and objtypes[k] is
\* objnames[k][0] ':' objnames[k][1]; filenames[i] is docnames[i] '.rst'
\* at every position i.
C10_TablesAgree ==
  /\ DOMAIN index.objnames = DOMAIN index.objtypes
  /\ \A k \in DOMAIN index.objnames :
       index.objtypes[k] = index.objnames[k][1] \o ":" \o index.objnames[k][2]
  /\ Len(index.filenames) = Len(index.docnames)
  /\ \A i \in 1..Len(index.docnames) :
       index.filenames[i] = index.docnames[i] \o ".rst"

C10_Witness ==
  /\ loaded
  /\ Cardinality(DOMAIN index.objtypes) = 3
  /\ Len(index.filenames) = 3

====
